---------------------------- MODULE Spec2Model ----------------------------
(***************************************************************************)
(* Model of app.py: the intent classifier and dispatcher                   *)
(* (healthcare_chatbot), the completion client (ask_deepseek) and the      *)
(* submit handler of the Streamlit page (main).                            *)
(*                                                                         *)
(* A Python str is modelled as a sequence of Unicode code points, so that  *)
(* strip(), lower() and the regular expressions are computed character by  *)
(* character as the interpreter computes them.                             *)
(***************************************************************************)
EXTENDS Integers, Sequences, FiniteSets, TLC

VARIABLES user_input,   \* content of the st.text_area widget
          nkeys,        \* number of chunks typed into the widget so far
          via,          \* "idle", "main" (Submit pressed) or "call" (direct call)
          invocations,  \* healthcare_chatbot invocations in this script run
          result,       \* what the last healthcare_chatbot invocation did
          outcome,      \* what the remote endpoint did with the request, if any
          shown         \* what the page displays below the button

vars == <<user_input, nkeys, via, invocations, result, outcome, shown>>

(***************************************************************************)
(* Bounds of the model.                                                    *)
(***************************************************************************)
MaxKeys == 2

(***************************************************************************)
(* String literals of app.py, as code points.                              *)
(***************************************************************************)
(* '\\u26a0\\ufe0f Please enter a question.' *)
WARNING_QUESTION ==
    <<9888, 65039, 32, 80, 108, 101, 97, 115, 101, 32, 101, 110, 116, 101, 114, 32, 97, 32, 113, 117, 101, 115, 116, 105, 111, 110, 46>>

(* '\\u26a0\\ufe0f Please enter a message before submitting.' *)
WARNING_MESSAGE ==
    <<9888, 65039, 32, 80, 108, 101, 97, 115, 101, 32, 101, 110, 116, 101, 114, 32, 97, 32, 109, 101, 115, 115, 97, 103, 101, 32, 98, 101, 102, 111, 114, 101, 32, 115, 117, 98, 109, 105, 116, 116, 105, 110, 103, 46>>

(* '**Assistant:** ' *)
ASSISTANT_PREFIX ==
    <<42, 42, 65, 115, 115, 105, 115, 116, 97, 110, 116, 58, 42, 42, 32>>

(* 'What are possible causes and general information about ' *)
PROMPT_HEAD ==
    <<87, 104, 97, 116, 32, 97, 114, 101, 32, 112, 111, 115, 115, 105, 98, 108, 101, 32, 99, 97, 117, 115, 101, 115, 32, 97, 110, 100, 32, 103, 101, 110, 101, 114, 97, 108, 32, 105, 110, 102, 111, 114, 109, 97, 116, 105, 111, 110, 32, 97, 98, 111, 117, 116, 32>>

(* '?' *)
PROMPT_TAIL ==
    <<63>>

(* '\n\n' *)
BLANK_LINE ==
    <<10, 10>>

(* '\\u26a0\\ufe0f Disclaimer: This information is educational only and not a substitute for professional medical advice. Please consult a qualified healthcare professional for personalized guidance.' *)
DISCLAIMER ==
    <<9888, 65039, 32, 68, 105, 115, 99, 108, 97, 105, 109, 101, 114, 58, 32, 84, 104, 105, 115, 32, 105, 110, 102, 111, 114, 109, 97, 116, 105, 111, 110, 32, 105, 115, 32, 101, 100, 117, 99, 97, 116, 105, 111, 110, 97, 108, 32, 111, 110, 108, 121, 32, 97, 110, 100, 32, 110, 111, 116, 32, 97, 32, 115, 117, 98, 115, 116, 105, 116, 117, 116, 101, 32, 102, 111, 114, 32, 112, 114, 111, 102, 101, 115, 115, 105, 111, 110, 97, 108, 32, 109, 101, 100, 105, 99, 97, 108, 32, 97, 100, 118, 105, 99, 101, 46, 32, 80, 108, 101, 97, 115, 101, 32, 99, 111, 110, 115, 117, 108, 116, 32, 97, 32, 113, 117, 97, 108, 105, 102, 105, 101, 100, 32, 104, 101, 97, 108, 116, 104, 99, 97, 114, 101, 32, 112, 114, 111, 102, 101, 115, 115, 105, 111, 110, 97, 108, 32, 102, 111, 114, 32, 112, 101, 114, 115, 111, 110, 97, 108, 105, 122, 101, 100, 32, 103, 117, 105, 100, 97, 110, 99, 101, 46>>

(* '\\U0001f4c5 For appointment scheduling or physician referrals, please contact your healthcare provider directly.' *)
APPOINTMENT_REPLY ==
    <<128197, 32, 70, 111, 114, 32, 97, 112, 112, 111, 105, 110, 116, 109, 101, 110, 116, 32, 115, 99, 104, 101, 100, 117, 108, 105, 110, 103, 32, 111, 114, 32, 112, 104, 121, 115, 105, 99, 105, 97, 110, 32, 114, 101, 102, 101, 114, 114, 97, 108, 115, 44, 32, 112, 108, 101, 97, 115, 101, 32, 99, 111, 110, 116, 97, 99, 116, 32, 121, 111, 117, 114, 32, 104, 101, 97, 108, 116, 104, 99, 97, 114, 101, 32, 112, 114, 111, 118, 105, 100, 101, 114, 32, 100, 105, 114, 101, 99, 116, 108, 121, 46>>

(* '\\U0001f48a For medication or prescription concerns, please consult your doctor or pharmacist.' *)
MEDICATION_REPLY ==
    <<128138, 32, 70, 111, 114, 32, 109, 101, 100, 105, 99, 97, 116, 105, 111, 110, 32, 111, 114, 32, 112, 114, 101, 115, 99, 114, 105, 112, 116, 105, 111, 110, 32, 99, 111, 110, 99, 101, 114, 110, 115, 44, 32, 112, 108, 101, 97, 115, 101, 32, 99, 111, 110, 115, 117, 108, 116, 32, 121, 111, 117, 114, 32, 100, 111, 99, 116, 111, 114, 32, 111, 114, 32, 112, 104, 97, 114, 109, 97, 99, 105, 115, 116, 46>>

(* '[Error]: ' *)
ERROR_PREFIX ==
    <<91, 69, 114, 114, 111, 114, 93, 58, 32>>

(* "'NoneType' object has no attribute 'strip'" *)
NONE_STRIP_MESSAGE ==
    <<39, 78, 111, 110, 101, 84, 121, 112, 101, 39, 32, 111, 98, 106, 101, 99, 116, 32, 104, 97, 115, 32, 110, 111, 32, 97, 116, 116, 114, 105, 98, 117, 116, 101, 32, 39, 115, 116, 114, 105, 112, 39>>


(***************************************************************************)
(* The alternations of the five regular expressions, in source order.      *)
(***************************************************************************)
(* (what is|explain|define) *)
DEFINITION_ALTS ==
    << <<119, 104, 97, 116, 32, 105, 115>>,
       <<101, 120, 112, 108, 97, 105, 110>>,
       <<100, 101, 102, 105, 110, 101>> >>

(* (i have|i am|i’m|i feel): the apostrophe is U+2019 *)
FIRST_PERSON_ALTS ==
    << <<105, 32, 104, 97, 118, 101>>,
       <<105, 32, 97, 109>>,
       <<105, 8217, 109>>,
       <<105, 32, 102, 101, 101, 108>> >>

(* (symptom|pain|ache|fever|cough|cold|headache|nausea) *)
SYMPTOM_ALTS ==
    << <<115, 121, 109, 112, 116, 111, 109>>,
       <<112, 97, 105, 110>>,
       <<97, 99, 104, 101>>,
       <<102, 101, 118, 101, 114>>,
       <<99, 111, 117, 103, 104>>,
       <<99, 111, 108, 100>>,
       <<104, 101, 97, 100, 97, 99, 104, 101>>,
       <<110, 97, 117, 115, 101, 97>> >>

(* (appointment|doctor|physician|clinic) *)
APPOINTMENT_ALTS_NO_DOCTOR ==
    << <<97, 112, 112, 111, 105, 110, 116, 109, 101, 110, 116>>,
       <<112, 104, 121, 115, 105, 99, 105, 97, 110>>,
       <<99, 108, 105, 110, 105, 99>> >>

APPOINTMENT_ALTS ==
    << <<97, 112, 112, 111, 105, 110, 116, 109, 101, 110, 116>>,
       <<100, 111, 99, 116, 111, 114>>,
       <<112, 104, 121, 115, 105, 99, 105, 97, 110>>,
       <<99, 108, 105, 110, 105, 99>> >>

(* (medication|prescription|drugs|pills) *)
MEDICATION_ALTS_NO_PILLS ==
    << <<109, 101, 100, 105, 99, 97, 116, 105, 111, 110>>,
       <<112, 114, 101, 115, 99, 114, 105, 112, 116, 105, 111, 110>>,
       <<100, 114, 117, 103, 115>> >>

MEDICATION_ALTS ==
    << <<109, 101, 100, 105, 99, 97, 116, 105, 111, 110>>,
       <<112, 114, 101, 115, 99, 114, 105, 112, 116, 105, 111, 110>>,
       <<100, 114, 117, 103, 115>>,
       <<112, 105, 108, 108, 115>> >>

(***************************************************************************)
(* Character classes and the str methods the code uses.                    *)
(***************************************************************************)
(* str.isspace() and the \s class of a str pattern: the Unicode whitespace *)
IsSpace(c) ==
    \/ c \in 9..13
    \/ c \in 28..32
    \/ c \in {133, 160, 5760, 8232, 8233, 8239, 8287, 12288}
    \/ c \in 8192..8202

(* the \w class, on the code points that occur in the modelled inputs:     *)
(* ASCII letters, digits and the underscore are word characters, and the   *)
(* apostrophes, blanks and punctuation are not                             *)
IsWordChar(c) ==
    \/ c \in 48..57
    \/ c \in 65..90
    \/ c \in 97..122
    \/ c = 95

(* str.lower() of one character: A-Z map to a-z (and the Latin-1 capitals  *)
(* to their small letters); every other modelled code point is unchanged   *)
LowerChar(c) ==
    IF c \in 65..90 \/ (c \in 192..222 /\ c # 215) THEN c + 32 ELSE c

str_lower(s) ==
    [i \in 1..Len(s) |-> LowerChar(s[i])]

RECURSIVE lstrip(_)
lstrip(s) ==
    IF s # <<>> /\ IsSpace(Head(s)) THEN lstrip(Tail(s)) ELSE s

RECURSIVE rstrip(_)
rstrip(s) ==
    IF s # <<>> /\ IsSpace(s[Len(s)]) THEN rstrip(SubSeq(s, 1, Len(s) - 1)) ELSE s

str_strip_identity(s) ==
    s

(* str.strip(): removes leading and trailing whitespace *)
str_strip(s) ==
    rstrip(lstrip(s))

(***************************************************************************)
(* The regular expressions.  A position i in 1..Len(s)+1 is the gap before *)
(* the i-th character.                                                     *)
(***************************************************************************)
(* \b : exactly one of the two neighbours of the gap is a word character *)
AtWordBoundary(s, i) ==
    LET before == i > 1 /\ IsWordChar(s[i - 1])
        after  == i <= Len(s) /\ IsWordChar(s[i])
    IN  before # after

(* the literal w matches s at position i *)
LiteralAt(w, s, i) ==
    /\ i + Len(w) - 1 <= Len(s)
    /\ \A j \in 1..Len(w) : s[i + j - 1] = w[j]

(* \b(a1|...|an)\b tried at position i: the index of the first alternative *)
(* with which the whole pattern succeeds there, 0 when there is none       *)
AltAt(alts, s, i) ==
    IF ~AtWordBoundary(s, i) THEN 0
    ELSE LET ok == {k \in 1..Len(alts) :
                       /\ LiteralAt(alts[k], s, i)
                       /\ AtWordBoundary(s, i + Len(alts[k]))}
         IN  IF ok = {} THEN 0 ELSE CHOOSE k \in ok : \A j \in ok : k <= j

NoMatch ==
    [found |-> FALSE, start |-> 0, group |-> <<>>]

RECURSIVE SearchFrom(_, _, _)
SearchFrom(alts, s, i) ==
    IF i > Len(s) + 1 THEN NoMatch
    ELSE IF AltAt(alts, s, i) # 0
         THEN [found |-> TRUE, start |-> i, group |-> alts[AltAt(alts, s, i)]]
         ELSE SearchFrom(alts, s, i + 1)

(* a search that tries the alternatives in list order over the whole text, *)
(* instead of the positions of the text in order                           *)
RECURSIVE SearchByList(_, _, _)
SearchByList(alts, s, k) ==
    IF k > Len(alts) THEN NoMatch
    ELSE LET at == {i \in 1..Len(s) + 1 : AltAt(<<alts[k]>>, s, i) # 0}
         IN  IF at # {}
             THEN [found |-> TRUE, start |-> CHOOSE i \in at : \A j \in at : i <= j,
                   group |-> alts[k]]
             ELSE SearchByList(alts, s, k + 1)

re_search_list_priority(alts, s) ==
    SearchByList(alts, s, 1)

(* re.search(r"\b(a1|...|an)\b", s): the leftmost position where the       *)
(* pattern matches, and group(1) there                                     *)
re_search(alts, s) ==
    SearchFrom(alts, s, 1)

(* the number of leading whitespace characters of s *)
RECURSIVE LeadingSpaces(_)
LeadingSpaces(s) ==
    IF s # <<>> /\ IsSpace(Head(s)) THEN 1 + LeadingSpaces(Tail(s)) ELSE 0

(* re.match(r"^\s*(what is|explain|define)\b", s): \s* may give back any   *)
(* of the blanks it took, then one alternative and a word boundary follow  *)
re_match_definition(s) ==
    \E j \in 1..LeadingSpaces(s) + 1 :
        \E k \in 1..Len(DEFINITION_ALTS) :
            /\ LiteralAt(DEFINITION_ALTS[k], s, j)
            /\ AtWordBoundary(s, j + Len(DEFINITION_ALTS[k]))

(***************************************************************************)
(* The completion client.  The remote endpoint is outside the program: an  *)
(* outcome says what one request came back with.                           *)
(*   "text"     the response carries the generated text `content`          *)
(*   "none"     the response carries no content (None), so that .strip()   *)
(*              raises AttributeError                                      *)
(*   "apierror" client.chat.completions.create raised, str(e) = `content`  *)
(***************************************************************************)
Outcomes ==
    { [kind |-> "text",     content |-> <<32, 111, 107, 10>>],          \* " ok\n"
      [kind |-> "text",     content |-> <<32>>],                        \* " "
      [kind |-> "text",     content |-> <<91, 69, 114, 114, 111, 114, 93, 58, 32, 98, 111, 111, 109>>],  \* "[Error]: boom"
      [kind |-> "none",     content |-> <<>>],
      [kind |-> "apierror", content |-> <<98, 111, 111, 109>>] }        \* "boom"

NoOutcome ==
    [kind |-> "norequest", content |-> <<>>]

(* the body of the try block: the value it returns, or the exception *)
TryBody(o) ==
    CASE o.kind = "text"     -> [exc |-> "",               value |-> str_strip(o.content)]
      [] o.kind = "none"     -> [exc |-> "AttributeError", value |-> NONE_STRIP_MESSAGE]
      [] o.kind = "apierror" -> [exc |-> "APIError",       value |-> o.content]

(* an except clause that names the client's error class only *)
ask_deepseek_api_errors_only(prompt, o) ==
    LET t == TryBody(o)
    IN  CASE t.exc = ""         -> [raised |-> FALSE, value |-> t.value, requests |-> <<prompt>>]
          [] t.exc = "APIError" -> [raised |-> FALSE, value |-> ERROR_PREFIX \o t.value,
                                    requests |-> <<prompt>>]
          [] OTHER              -> [raised |-> TRUE, value |-> <<>>, requests |-> <<prompt>>]

(* an except clause that returns str(e) alone *)
ask_deepseek_bare_message(prompt, o) ==
    LET t == TryBody(o)
    IN  [raised |-> FALSE, value |-> t.value, requests |-> <<prompt>>]

(* ask_deepseek: one request carrying `prompt`; every exception of the try *)
(* block is caught and returned as "[Error]: {e}"                          *)
ask_deepseek(prompt, o) ==
    LET t == TryBody(o)
    IN  IF t.exc = ""
        THEN [raised |-> FALSE, value |-> t.value, requests |-> <<prompt>>]
        ELSE [raised |-> FALSE, value |-> ERROR_PREFIX \o t.value, requests |-> <<prompt>>]

(***************************************************************************)
(* healthcare_chatbot.  A result records the returned string, the prompts  *)
(* of the requests issued, the strings the client returned, the branch     *)
(* that returned and whether an exception left the function.               *)
(***************************************************************************)
NoResult ==
    [out |-> <<>>, requests |-> <<>>, replies |-> <<>>, branch |-> "none", raised |-> FALSE]

Templated(branch, text) ==
    [out |-> text, requests |-> <<>>, replies |-> <<>>, branch |-> branch, raised |-> FALSE]

FromClient(branch, a, text) ==
    [out      |-> IF a.raised THEN <<>> ELSE text,
     requests |-> a.requests,
     replies  |-> IF a.raised THEN <<>> ELSE <<a.value>>,
     branch   |-> branch,
     raised   |-> a.raised]

DefinitionBranch_lowercased(prompt, o) ==
    LET a == ask_deepseek(str_lower(prompt), o)
    IN  FromClient("definition", a, a.value)

(* return ask_deepseek(prompt) *)
DefinitionBranch(prompt, o) ==
    LET a == ask_deepseek(prompt, o)
    IN  FromClient("definition", a, a.value)

(* f"What are possible causes and general information about {symptom}?" *)
symptom_prompt(symptom) ==
    PROMPT_HEAD \o symptom \o PROMPT_TAIL

with_disclaimer_one_newline(general_info) ==
    general_info \o <<10>> \o DISCLAIMER

(* f"{general_info}\n\n" followed by the two disclaimer literals *)
with_disclaimer(general_info) ==
    general_info \o BLANK_LINE \o DISCLAIMER

SymptomBranch_two_requests(lower, o) ==
    LET symptom == re_search(SYMPTOM_ALTS, lower).group
        first   == ask_deepseek(lower, o)
        a       == ask_deepseek(symptom_prompt(symptom), o)
    IN  [FromClient("symptom", a, with_disclaimer(a.value))
            EXCEPT !.requests = first.requests \o a.requests]

SymptomBranch(lower, o) ==
    LET symptom == re_search(SYMPTOM_ALTS, lower).group
        a       == ask_deepseek(symptom_prompt(symptom), o)
    IN  FromClient("symptom", a, with_disclaimer(a.value))

(* return ask_deepseek(prompt), the last statement *)
FallbackBranch(prompt, o) ==
    LET a == ask_deepseek(prompt, o)
    IN  FromClient("fallback", a, a.value)

healthcare_chatbot(input, o) ==
    LET prompt == str_strip(input)
        lower  == str_lower(prompt)
    IN  IF prompt = <<>>
        THEN Templated("empty", WARNING_QUESTION)
        ELSE IF re_match_definition(lower)
        THEN DefinitionBranch(prompt, o)
        ELSE IF /\ re_search(FIRST_PERSON_ALTS, lower).found
                /\ re_search(SYMPTOM_ALTS, lower).found
        THEN SymptomBranch(lower, o)
        ELSE IF re_search(APPOINTMENT_ALTS, lower).found
        THEN Templated("appointment", APPOINTMENT_REPLY)
        ELSE IF re_search(MEDICATION_ALTS, lower).found
        THEN Templated("medication", MEDICATION_REPLY)
        ELSE FallbackBranch(prompt, o)

(***************************************************************************)
(* The page.  The user types chunks of text into the text area; every      *)
(* change of the widget reruns the script with the button not pressed, so  *)
(* nothing is shown below it.                                              *)
(***************************************************************************)
Keys ==
    { <<87, 104, 97, 116, 32, 105, 115>>,            \* "What is"
      <<100, 101, 102, 105, 110, 101>>,              \* "define"
      <<73, 32, 104, 97, 118, 101, 32, 99, 111, 117, 103, 104>>,  \* "I have cough"
      <<105, 8217, 109>>,                            \* "i’m" (U+2019)
      <<105, 39, 109>>,                              \* "i'm" (U+0027)
      <<102, 101, 118, 101, 114>>,                   \* "fever"
      <<104, 101, 97, 100, 97, 99, 104, 101>>,       \* "headache"
      <<100, 111, 99, 116, 111, 114>>,               \* "doctor"
      <<112, 105, 108, 108, 115>>,                   \* "pills"
      <<120>>,                                       \* "x"
      <<10>> }                                       \* a line break

Separators ==
    { <<>>, <<32>> }

NothingShown ==
    [kind |-> "nothing", text |-> <<>>]

Init ==
    /\ user_input = <<>>
    /\ nkeys = 0
    /\ via = "idle"
    /\ invocations = 0
    /\ result = NoResult
    /\ outcome = NoOutcome
    /\ shown = NothingShown

(* user_input = st.text_area(...); st.button("Submit") is False *)
Type(sep, key) ==
    /\ nkeys < MaxKeys
    /\ user_input' = user_input \o sep \o key
    /\ nkeys' = nkeys + 1
    /\ via' = "idle"
    /\ invocations' = 0
    /\ result' = NoResult
    /\ outcome' = NoOutcome
    /\ shown' = NothingShown

(* if st.button("Submit"): ...  The handler reads the widget only, so a   *)
(* second press on an unchanged text runs it on the same text again; it is *)
(* taken once per change of the widget.                                    *)
Submit ==
    /\ via = "idle"
    /\ via' = "main"
    /\ UNCHANGED <<user_input, nkeys>>
    /\ IF str_strip(user_input) = <<>>
       THEN /\ shown' = [kind |-> "warning", text |-> WARNING_MESSAGE]
            /\ invocations' = 0
            /\ result' = NoResult
            /\ outcome' = NoOutcome
       ELSE \E o \in Outcomes :
              LET r == healthcare_chatbot(user_input, o)
              IN  /\ invocations' = 1
                  /\ result' = r
                  /\ outcome' = IF r.requests = <<>> THEN NoOutcome ELSE o
                  /\ shown' = IF r.raised
                              THEN [kind |-> "exception", text |-> <<>>]
                              ELSE [kind |-> "markdown", text |-> ASSISTANT_PREFIX \o r.out]

(* healthcare_chatbot(user_input) called on its own, as an importing       *)
(* module calls it, once per text                                          *)
Call ==
    /\ via = "idle"
    /\ via' = "call"
    /\ UNCHANGED <<user_input, nkeys>>
    /\ \E o \in Outcomes :
         LET r == healthcare_chatbot(user_input, o)
         IN  /\ invocations' = 1
             /\ result' = r
             /\ outcome' = IF r.requests = <<>> THEN NoOutcome ELSE o
             /\ shown' = NothingShown

Next ==
    \/ \E sep \in Separators, key \in Keys : Type(sep, key)
    \/ Submit
    \/ Call

Spec ==
    Init /\ [][Next]_vars

(***************************************************************************)
(* Vocabulary of the properties, stated on the text itself.                *)
(***************************************************************************)
(* the word w occurs in s at position i with a word boundary on each side *)
WholeWordAt(w, s, i) ==
    /\ LiteralAt(w, s, i)
    /\ AtWordBoundary(s, i)
    /\ AtWordBoundary(s, i + Len(w))

ContainsWord(w, s) ==
    \E i \in 1..Len(s) : WholeWordAt(w, s, i)

ContainsAny(words, s) ==
    \E w \in words : ContainsWord(w, s)

(* s consists of whitespace only (the empty string included) *)
Blank(s) ==
    \A i \in 1..Len(s) : IsSpace(s[i])

(* "what is", "explain", "define" *)
LeadPhrases ==
    { <<119, 104, 97, 116, 32, 105, 115>>,
      <<101, 120, 112, 108, 97, 105, 110>>,
      <<100, 101, 102, 105, 110, 101>> }

(* "i have", "i am", "i’m" with U+2019, "i feel" *)
MarkersCurly ==
    { <<105, 32, 104, 97, 118, 101>>,
      <<105, 32, 97, 109>>,
      <<105, 8217, 109>>,
      <<105, 32, 102, 101, 101, 108>> }

(* the same with "i'm" written with U+0027 as well *)
MarkersBoth ==
    MarkersCurly \cup { <<105, 39, 109>> }

(* "symptom", "pain", "ache", "fever", "cough", "cold", "headache", "nausea" *)
SymptomTerms ==
    { <<115, 121, 109, 112, 116, 111, 109>>,
      <<112, 97, 105, 110>>,
      <<97, 99, 104, 101>>,
      <<102, 101, 118, 101, 114>>,
      <<99, 111, 117, 103, 104>>,
      <<99, 111, 108, 100>>,
      <<104, 101, 97, 100, 97, 99, 104, 101>>,
      <<110, 97, 117, 115, 101, 97>> }

(* "appointment", "doctor", "physician", "clinic" *)
AppointmentWords ==
    { <<97, 112, 112, 111, 105, 110, 116, 109, 101, 110, 116>>,
      <<100, 111, 99, 116, 111, 114>>,
      <<112, 104, 121, 115, 105, 99, 105, 97, 110>>,
      <<99, 108, 105, 110, 105, 99>> }

(* "medication", "prescription", "drugs", "pills" *)
MedicationWords ==
    { <<109, 101, 100, 105, 99, 97, 116, 105, 111, 110>>,
      <<112, 114, 101, 115, 99, 114, 105, 112, 116, 105, 111, 110>>,
      <<100, 114, 117, 103, 115>>,
      <<112, 105, 108, 108, 115>> }

(* the trimmed, lower-cased form of the text in the widget *)
Lowered ==
    str_lower(str_strip(user_input))

(* rule 2: the lowered text starts with a lead phrase and a word boundary *)
Definitional ==
    \E w \in LeadPhrases :
        /\ LiteralAt(w, Lowered, 1)
        /\ AtWordBoundary(Lowered, Len(w) + 1)

(* rule 3 as the code has it, and as the specification words it *)
SymptomReport ==
    ContainsAny(MarkersCurly, Lowered) /\ ContainsAny(SymptomTerms, Lowered)

SymptomReportBoth ==
    ContainsAny(MarkersBoth, Lowered) /\ ContainsAny(SymptomTerms, Lowered)

(* rules 4 and 5 *)
AppointmentQuery ==
    ContainsAny(AppointmentWords, Lowered)

MedicationQuery ==
    ContainsAny(MedicationWords, Lowered)

(* healthcare_chatbot has run on the text in the widget *)
Invoked ==
    invocations = 1

Failed ==
    outcome.kind \in {"none", "apierror"}

(* the listed symptom term whose whole-word occurrence starts earliest *)
EarliestTerm(s) ==
    CHOOSE t \in SymptomTerms :
        \E i \in 1..Len(s) :
            /\ WholeWordAt(t, s, i)
            /\ \A u \in SymptomTerms : \A j \in 1..Len(s) :
                   WholeWordAt(u, s, j) => i <= j

(***************************************************************************)
(* C1.  healthcare_chatbot returns a non-empty string for every input and  *)
(* every outcome of the completion client, empty or whitespace-only        *)
(* generated text and failures included.                                   *)
(***************************************************************************)
C1_AlwaysNonEmpty ==
    Invoked => (~result.raised /\ result.out # <<>>)

(* C1 as amended: healthcare_chatbot never raises, and the string it       *)
(* returns is empty exactly when the definitional or the fallback branch   *)
(* is taken and the generated text is empty or whitespace-only.            *)
C1_EmptyOnlyForBlankGeneration ==
    Invoked =>
        /\ ~result.raised
        /\ result.out = <<>> <=>
               /\ result.branch \in {"definition", "fallback"}
               /\ outcome.kind = "text"
               /\ Blank(outcome.content)

C1_Witness ==
    /\ Invoked
    /\ result.branch = "definition"
    /\ outcome.kind = "none"
    /\ result.out # <<>>

(***************************************************************************)
(* C2.  An invocation issues exactly one request in the definitional, the  *)
(* symptom and the fallback branch and none in the appointment and the     *)
(* medication branch; one submit causes at most one invocation and at most *)
(* one request.                                                            *)
(***************************************************************************)
C2_RequestsPerBranch ==
    /\ invocations <= 1
    /\ Len(result.requests) <= 1
    /\ Invoked =>
         /\ result.branch \in {"definition", "symptom", "fallback"}
                => Len(result.requests) = 1
         /\ result.branch \in {"appointment", "medication"}
                => Len(result.requests) = 0

C2_Witness ==
    /\ via = "main"
    /\ Invoked
    /\ result.branch = "symptom"
    /\ Len(result.requests) = 1

(***************************************************************************)
(* C3.  For a definitional input the original text is forwarded unmodified *)
(* as the prompt and the client's result is returned with no disclaimer.   *)
(***************************************************************************)
C3_ForwardsOriginalText ==
    (Invoked /\ Definitional) =>
        /\ result.requests = <<user_input>>
        /\ result.replies = <<result.out>>

(* C3 as amended: the prompt is the input with its leading and trailing    *)
(* whitespace removed, its case kept, and the client's result is returned  *)
(* with no disclaimer.                                                     *)
C3_ForwardsTrimmedText ==
    (Invoked /\ Definitional) =>
        /\ result.requests = <<str_strip(user_input)>>
        /\ result.replies = <<result.out>>

C3_Witness ==
    /\ Invoked
    /\ Definitional
    /\ str_strip(user_input) # user_input
    /\ str_lower(user_input) # user_input
    /\ result.requests = <<str_strip(user_input)>>

(***************************************************************************)
(* C4.  For every input containing a first-person marker and a symptom     *)
(* term as whole words the output is the generated content, a blank line   *)
(* and the fixed disclaimer.                                               *)
(***************************************************************************)
C4_DisclaimerForEverySymptomReport ==
    (Invoked /\ SymptomReport) =>
        /\ Len(result.replies) = 1
        /\ result.out = result.replies[1] \o <<10, 10>> \o DISCLAIMER

(* C4 as amended: the same for the inputs that do not match the            *)
(* definitional rule, the markers being "i have", "i am", "i’m" (U+2019)   *)
(* and "i feel".                                                           *)
C4_DisclaimerUnlessDefinitional ==
    (Invoked /\ ~Definitional /\ SymptomReport) =>
        /\ Len(result.replies) = 1
        /\ result.out = result.replies[1] \o <<10, 10>> \o DISCLAIMER

C4_Witness ==
    /\ Invoked
    /\ ~Definitional
    /\ SymptomReport
    /\ outcome.kind = "text"
    /\ result.out = <<111, 107, 10, 10>> \o DISCLAIMER

(***************************************************************************)
(* C5.  For every input containing an appointment word and not matching    *)
(* the definitional rule, the fixed appointment string is returned and no  *)
(* request is issued, whatever else the input contains.                    *)
(***************************************************************************)
C5_AppointmentUnlessDefinitional ==
    (Invoked /\ AppointmentQuery /\ ~Definitional) =>
        /\ result.out = APPOINTMENT_REPLY
        /\ result.requests = <<>>

(* C5 as amended: the same for the inputs that match neither the           *)
(* definitional rule nor the symptom rule.                                 *)
C5_AppointmentUnlessDefinitionalOrSymptom ==
    (Invoked /\ AppointmentQuery /\ ~Definitional /\ ~SymptomReport) =>
        /\ result.out = APPOINTMENT_REPLY
        /\ result.requests = <<>>

C5_Witness ==
    /\ Invoked
    /\ AppointmentQuery
    /\ MedicationQuery
    /\ ~Definitional
    /\ ~SymptomReport
    /\ result.out = APPOINTMENT_REPLY

(***************************************************************************)
(* C6.  For every input containing a medication word and matching none of  *)
(* the definitional, symptom and appointment rules, the fixed medication   *)
(* string is returned and no request is issued.                            *)
(***************************************************************************)
C6_MedicationReply ==
    (Invoked /\ MedicationQuery /\ ~Definitional /\ ~SymptomReport /\ ~AppointmentQuery) =>
        /\ result.out = MEDICATION_REPLY
        /\ result.requests = <<>>

C6_Witness ==
    /\ Invoked
    /\ MedicationQuery
    /\ ContainsAny(MarkersCurly, Lowered)
    /\ ~Definitional
    /\ ~AppointmentQuery
    /\ result.out = MEDICATION_REPLY

(***************************************************************************)
(* C7.  A failure of the remote call becomes the return value              *)
(* "[Error]: {details}" of ask_deepseek and is not raised, and the output  *)
(* for a failed call with error string E is the output for a successful    *)
(* call that returned the text E.                                          *)
(***************************************************************************)
ErrorDetails ==
    IF outcome.kind = "none" THEN NONE_STRIP_MESSAGE ELSE outcome.content

C7_FailureIsOrdinaryText ==
    (Invoked /\ Failed) =>
        /\ ~result.raised
        /\ result.replies = << <<91, 69, 114, 114, 111, 114, 93, 58, 32>> \o ErrorDetails >>
        /\ \A o \in Outcomes :
               (o.kind = "text" /\ str_strip(o.content) = result.replies[1])
                   => healthcare_chatbot(user_input, o).out = result.out

C7_Witness ==
    /\ Invoked
    /\ outcome.kind = "apierror"
    /\ result.branch = "symptom"
    /\ \E o \in Outcomes : o.kind = "text" /\ <<str_strip(o.content)>> = result.replies

(***************************************************************************)
(* C8.  For empty or whitespace-only input healthcare_chatbot returns the  *)
(* fixed warning string and no request is issued.                          *)
(***************************************************************************)
C8_BlankInputWarning ==
    (via # "idle" /\ Blank(user_input)) =>
        /\ result.requests = <<>>
        /\ outcome = NoOutcome
        /\ Invoked => (result.out = WARNING_QUESTION /\ ~result.raised)
        /\ via = "main" => ~Invoked

C8_Witness ==
    /\ via = "call"
    /\ Invoked
    /\ user_input # <<>>
    /\ Blank(user_input)
    /\ result.out = WARNING_QUESTION

(***************************************************************************)
(* C9.  In the symptom branch the only prompt sent is "What are possible   *)
(* causes and general information about {symptom}?" with the listed term   *)
(* whose whole-word occurrence starts earliest in the lower-cased input.   *)
(***************************************************************************)
C9_EarliestSymptomInPrompt ==
    (Invoked /\ result.branch = "symptom") =>
        result.requests = << PROMPT_HEAD \o EarliestTerm(Lowered) \o <<63>> >>

(* "cough" occurs before "fever", which precedes it in the list *)
C9_Witness ==
    /\ Invoked
    /\ result.branch = "symptom"
    /\ ContainsWord(<<102, 101, 118, 101, 114>>, Lowered)
    /\ EarliestTerm(Lowered) = <<99, 111, 117, 103, 104>>
    /\ result.requests = << PROMPT_HEAD \o <<99, 111, 117, 103, 104>> \o <<63>> >>

(***************************************************************************)
(* C10.  A non-empty input that does not match the definitional rule takes *)
(* the symptom branch if and only if its lower-cased form contains, as     *)
(* whole words, one of "i have", "i am", "i'm" (U+0027), "i’m" (U+2019),   *)
(* "i feel" and one of the eight symptom terms.                            *)
(***************************************************************************)
C10_SymptomBranchIffMarkerAndTerm ==
    (Invoked /\ ~Blank(user_input) /\ ~Definitional) =>
        (result.branch = "symptom" <=> SymptomReportBoth)
============================================================================
